---- MODULE Spec2Model ----
(***************************************************************************)
(* Model of src/getData.mjs: the zod schemas that validate an estimates    *)
(* document and roll its numbers up from minor tasks to major tasks, task  *)
(* categories and the whole plan.                                          *)
(*                                                                         *)
(* JavaScript numbers are IEEE-754 binary64.  A number is modelled as a    *)
(* fixed-point value <<i, a, b, c>> = i + a/2^20 + b/2^40 + c/2^60 with    *)
(* every result rounded to 53 significant bits (round to nearest, ties to  *)
(* even), which is what `+` and `/` do.  An object is a function from its   *)
(* keys to its values; a missing key is a key outside DOMAIN.              *)
(***************************************************************************)
EXTENDS Integers, Sequences, FiniteSets, TLC

(***************************************************************************)
(* Numbers                                                                 *)
(***************************************************************************)
Base == 2^20

NaN == <<-1, 0, 0, 0>>

IsNaN(x) == x[1] < 0

Num(k) == <<k, 0, 0, 0>>

RECURSIVE BitLen(_)
BitLen(n) == IF n = 0 THEN 0 ELSE 1 + BitLen(n \div 2)

\* Limbs back into 0..Base-1 after an addition.
Carry(x) ==
  LET b1 == x[3] + x[4] \div Base
      a1 == x[2] + b1 \div Base
  IN  <<x[1] + a1 \div Base, a1 % Base, b1 % Base, x[4] % Base>>

\* Number of significant bits of x read as an integer in units of 2^-60.
Bits(x) ==
  IF x[1] > 0 THEN 60 + BitLen(x[1])
  ELSE IF x[2] > 0 THEN 40 + BitLen(x[2])
  ELSE IF x[3] > 0 THEN 20 + BitLen(x[3])
  ELSE BitLen(x[4])

\* Round an exact value (x plus, when sticky, a little more) to a double.
RoundToDouble(x, sticky) ==
  LET drop == Bits(x) - 53
  IN  IF drop <= 0 THEN x
      ELSE LET q == 2^drop
               r == x[4] % q
               odd == IF drop < 20 THEN (x[4] \div q) % 2 = 1 ELSE x[3] % 2 = 1
               up == r * 2 > q \/ (r * 2 = q /\ (sticky \/ odd))
           IN  Carry(<<x[1], x[2], x[3], x[4] - r + (IF up THEN q ELSE 0)>>)

\* x + y
FAdd(x, y) ==
  IF IsNaN(x) \/ IsNaN(y) THEN NaN
  ELSE RoundToDouble(Carry(<<x[1] + y[1], x[2] + y[2], x[3] + y[3], x[4] + y[4]>>), FALSE)

\* x / n for an array length n >= 1
FDiv(x, n) ==
  IF IsNaN(x) THEN NaN
  ELSE LET ta == (x[1] % n) * Base + x[2]
           tb == (ta % n) * Base + x[3]
           tc == (tb % n) * Base + x[4]
       IN  RoundToDouble(<<x[1] \div n, ta \div n, tb \div n, tc \div n>>, tc % n # 0)

\* Math.round(x), x >= 0: the nearest integer, a tie going up
MathRound(x) ==
  IF IsNaN(x) THEN NaN
  ELSE Num(x[1] + (IF x[2] * 2 >= Base THEN 1 ELSE 0))

(***************************************************************************)
(* Objects and schemas                                                     *)
(***************************************************************************)
Has(o, k) == k \in DOMAIN o

\* z.object(...) keeps the keys of its shape and strips every other key.
Pick(o, keys) == [k \in (keys \cap DOMAIN o) |-> o[k]]

\* {...a, ...b}
Spread(a, b) == [k \in DOMAIN a \cup DOMAIN b |-> IF k \in DOMAIN b THEN b[k] ELSE a[k]]

EstimateKeys == {"lowerEstimate", "higherEstimate", "complexity", "confidence"}

\* z.number() accepts every number but NaN
IsNumber(o, k) == Has(o, k) /\ ~IsNaN(o[k])

estimates(val) ==
  [ok |-> \A k \in EstimateKeys : IsNumber(val, k),
   value |-> Pick(val, EstimateKeys)]

gantt(val) ==
  [ok |-> Has(val, "position") /\ Has(val, "start"),
   value |-> Pick(val, {"position", "start", "label", "color"})]

\* minorTask without its third member: the comment is not kept.
minorTaskBare(val) ==
  [ok |-> Has(val, "name") /\ estimates(val).ok,
   value |-> Pick(val, {"name"} \cup EstimateKeys)]

minorTask(val) ==
  [ok |-> Has(val, "name") /\ estimates(val).ok,
   value |-> Pick(val, {"name", "comment"} \cup EstimateKeys)]

\* majorTaskIn that drops the tasks failing their check instead of failing.
majorTaskInLenient(val) ==
  LET ok == /\ Has(val, "name")
            /\ Has(val, "tasks")
            /\ Has(val, "gantt")
            /\ gantt(val.gantt).ok
      good == SelectSeq(val.tasks, LAMBDA t : minorTask(t).ok)
  IN  [ok |-> ok,
       value |-> IF ok
                 THEN [name |-> val.name,
                       tasks |-> [i \in 1..Len(good) |-> minorTask(good[i]).value],
                       gantt |-> gantt(val.gantt).value]
                 ELSE val]

majorTaskIn(val) ==
  LET ok == /\ Has(val, "name")
            /\ Has(val, "tasks")
            /\ \A i \in 1..Len(val.tasks) : minorTask(val.tasks[i]).ok
            /\ Has(val, "gantt")
            /\ gantt(val.gantt).ok
  IN  [ok |-> ok,
       value |-> IF ok
                 THEN [name |-> val.name,
                       tasks |-> [i \in 1..Len(val.tasks) |-> minorTask(val.tasks[i]).value],
                       gantt |-> gantt(val.gantt).value]
                 ELSE val]

(***************************************************************************)
(* The reduction the three preprocess callbacks share, and the sort        *)
(***************************************************************************)
ZeroTotals ==
  [lowerEstimate |-> Num(0), higherEstimate |-> Num(0),
   complexity |-> Num(0), confidence |-> Num(0)]

\* The reduce callback applied to the first k tasks of an array of length n.
RECURSIVE Reduce(_, _, _)
Reduce(tasks, k, n) ==
  IF k = 0 THEN ZeroTotals
  ELSE LET acc == Reduce(tasks, k - 1, n)
           task == tasks[k]
       IN  [lowerEstimate |-> FAdd(acc.lowerEstimate, task.lowerEstimate),
            higherEstimate |-> FAdd(acc.higherEstimate, task.higherEstimate),
            complexity |-> FAdd(acc.complexity, FDiv(task.complexity, n)),
            confidence |-> FAdd(acc.confidence, FDiv(task.confidence, n))]

\* Totals with the mean taken as sum / length: 0 / 0 on an empty array.
TotalsOfMean(tasks) ==
  LET totals == Reduce(tasks, Len(tasks), Len(tasks))
  IN  IF Len(tasks) = 0
      THEN [totals EXCEPT !.complexity = NaN, !.confidence = NaN]
      ELSE [totals EXCEPT !.complexity = MathRound(totals.complexity),
                          !.confidence = MathRound(totals.confidence)]

\* tasks.reduce(...) followed by the two Math.round assignments
Totals(tasks) ==
  LET totals == Reduce(tasks, Len(tasks), Len(tasks))
  IN  [totals EXCEPT !.complexity = MathRound(totals.complexity),
                     !.confidence = MathRound(totals.confidence)]

\* InsertTask with the comparator turned round: b.gantt.position - a.gantt.position.
InsertTaskDescending(sorted, task) ==
  LET n == Cardinality({i \in 1..Len(sorted) :
                          task.gantt.position - sorted[i].gantt.position <= 0})
  IN  SubSeq(sorted, 1, n) \o <<task>> \o SubSeq(sorted, n + 1, Len(sorted))

\* Where a task goes in an array already sorted: after every task the
\* comparator does not put behind it (Array.prototype.sort is stable).
InsertTask(sorted, task) ==
  LET n == Cardinality({i \in 1..Len(sorted) :
                          sorted[i].gantt.position - task.gantt.position <= 0})
  IN  SubSeq(sorted, 1, n) \o <<task>> \o SubSeq(sorted, n + 1, Len(sorted))

\* input.tasks.sort((a, b) => a.gantt.position - b.gantt.position)
RECURSIVE SortTasks(_)
SortTasks(tasks) ==
  IF tasks = <<>> THEN <<>>
  ELSE InsertTask(SortTasks(SubSeq(tasks, 1, Len(tasks) - 1)), tasks[Len(tasks)])

(***************************************************************************)
(* The documents the runs start from                                       *)
(***************************************************************************)
MaxMinors == 3
MaxMajors == 3
MaxCats == 2
Wide == 6

Without(o, keys) == Pick(o, DOMAIN o \ keys)

Minor(name, lo, hi, cx, cf) ==
  [name |-> name, lowerEstimate |-> Num(lo), higherEstimate |-> Num(hi),
   complexity |-> Num(cx), confidence |-> Num(cf)]

Major(name, tasks, position) ==
  [name |-> name, tasks |-> tasks,
   gantt |-> [position |-> position, start |-> "2023-01-01"]]

Category(name, tasks) == [name |-> name, tasks |-> tasks]

Plan(cats) == [estimates |-> cats]

\* Same-named fields somebody wrote on a node whose fields are derived.
Supplied == [lowerEstimate |-> Num(40), higherEstimate |-> Num(41),
             complexity |-> Num(5), confidence |-> Num(5)]

SeqsUpTo(S, n) == UNION {[1..k -> S] : k \in 0..n}

TaskA == Minor("a", 1, 2, 1, 2)
TaskB == Spread(Minor("b", 2, 4, 2, 5), [comment |-> "rough"])
TaskC == Minor("c", 0, 3, 3, 3)
TaskD == Minor("d", 3, 3, 4, 1)
Nameless == Without(Minor("e", 1, 1, 1, 1), {"name"})

MinorPool == {TaskA, TaskB, TaskC, TaskD, Nameless}

MajorP == Major("p", <<TaskA>>, 3)
MajorQ == Major("q", <<TaskB, TaskA>>, 1)
MajorR ==
  Spread(Major("r", <<TaskC>>, 2),
         [gantt |-> [position |-> 2, start |-> "2023-02-01", label |-> "crit", color |-> "red"],
          lowerEstimate |-> Num(40), complexity |-> Num(5)])
MajorS == Major("s", <<>>, 1)

MajorPool == {MajorP, MajorQ, MajorR, MajorS, Without(Major("t", <<TaskD>>, 2), {"name"})}

CategoryPool ==
  {Category("x", <<MajorP, Major("q", <<TaskB, TaskD>>, 1)>>),
   Spread(Category("y", <<MajorR>>), Supplied),
   Category("z", <<>>),
   Without(Category("w", <<MajorQ>>), {"name"})}

Documents ==
  {Plan(<<Category("x", <<Major("m", tasks, 1)>>)>>) : tasks \in SeqsUpTo(MinorPool, MaxMinors)}
  \cup {Plan(<<Category("x", tasks)>>) : tasks \in SeqsUpTo(MajorPool, MaxMajors)}
  \cup {Plan(cats) : cats \in SeqsUpTo(CategoryPool, MaxCats)}
  \cup {Spread(Plan(<<cat>>), Supplied) : cat \in CategoryPool}

\* Numbers that are not integers: the doubles 0.1, 0.2 and 0.3
Tenth == <<0, 104857, 629145, 629152>>
Fifth == <<0, 209715, 209715, 209728>>
ThreeTenths == <<0, 314572, 838860, 838848>>

Hours(lo) == [Minor("h", 0, 0, 1, 1) EXCEPT !.lowerEstimate = lo, !.higherEstimate = lo]

\* Wide nodes: Wide children with complexity 1 or 2, in schedule order or against it.
WideDocuments ==
  {Plan(<<Category("x", <<Major("m", [i \in 1..Wide |-> Minor("a", 1, 2, cx[i], 3)], 1)>>)>>) :
     cx \in [1..Wide -> {1, 2}]}
  \cup {Plan(<<Category("x", [i \in 1..Wide |->
                 Major("m", <<Minor("a", 1, 2, cx[i], 3)>>, Wide + 1 - i)])>>) :
     cx \in [1..Wide -> {1, 2}]}
  \cup {Plan(<<Category("x", [i \in 1..3 |-> Major("m", <<Hours(lo[i])>>, pos[i])])>>) :
     lo \in [1..3 -> {Tenth, Fifth, ThreeTenths}], pos \in [1..3 -> 1..3]}
  \cup {Plan(cats) : cats \in SeqsUpTo(CategoryPool, 1)}
  \cup {Plan(<<Category("x", tasks)>>) : tasks \in SeqsUpTo(MajorPool, 1)}

StripNode(o) == Without(o, EstimateKeys)

\* The document without any estimate field on a category, a major task or the plan.
StripDerived(doc) ==
  LET stripMajor(m) == StripNode(m)
      stripCat(c) == IF Has(c, "tasks")
                THEN [StripNode(c) EXCEPT !.tasks = [i \in 1..Len(c.tasks) |-> stripMajor(c.tasks[i])]]
                ELSE StripNode(c)
  IN  [StripNode(doc) EXCEPT !.estimates = [i \in 1..Len(doc.estimates) |-> stripCat(doc.estimates[i])]]

(***************************************************************************)
(* The run of estimateList.parse                                           *)
(***************************************************************************)
VARIABLES
  raw,      \* the document handed to estimateList.parse
  pc,       \* "start", "run", "done" or "failed"
  root,     \* the estimateList callback: pass, index into the array, the array
  cat,      \* the taskCategory callback in progress, if any
  maj,      \* the majorTask callback in progress, if any
  est,      \* the value estimateList.parse returned
  run,      \* "first", "again" (on the first result) or "variant"
  first,    \* what the first run returned
  shaped,   \* paths whose shape check has passed in this run
  reduced   \* paths whose reduction has been executed in this run

vars == <<raw, pc, root, cat, maj, est, run, first, shaped, reduced>>

Unset == [unset |-> TRUE]
Idle == [pass |-> "idle"]

Frame(pass, val, items) ==
  [pass |-> pass, i |-> 1, val |-> val, items |-> items, bad |-> FALSE]

Begin(doc) ==
  /\ raw = doc
  /\ pc = "start"
  /\ root = Idle
  /\ cat = Idle
  /\ maj = Idle
  /\ est = Unset
  /\ run = "first"
  /\ first = Unset
  /\ shaped = {}
  /\ reduced = {}

Init == \E doc \in Documents : Begin(doc)

InitWide == \E doc \in WideDocuments : Begin(doc)

\* estimateList.parse(val): the callback starts estimateSchema.parse(val)
Start ==
  /\ pc = "start"
  /\ pc' = "run"
  /\ root' = Frame("fn", raw, raw.estimates)
  /\ UNCHANGED <<raw, cat, maj, est, run, first, shaped, reduced>>

\* z.array(taskCategory) reaches its next element: the taskCategory callback
\* starts taskCategoryIn.parse(val)
TaskCategoryEnter ==
  /\ pc = "run"
  /\ root.pass \in {"fn", "out"}
  /\ cat = Idle
  /\ root.i <= Len(root.items)
  /\ cat' = Frame("fn", root.items[root.i], root.items[root.i].tasks)
  /\ UNCHANGED <<raw, pc, root, maj, est, run, first, shaped, reduced>>

MajorPending ==
  /\ pc = "run"
  /\ cat.pass \in {"fn", "out"}
  /\ maj = Idle
  /\ cat.i <= Len(cat.items)

\* MajorTaskParse that reduces the element as it came, without the shape check.
MajorTaskParseSkipped ==
  /\ MajorPending
  /\ maj' = [pass |-> "out",
             val |-> Spread(cat.items[cat.i], Totals(cat.items[cat.i].tasks))]
  /\ reduced' = reduced \cup {<<root.i, cat.i>>}
  /\ UNCHANGED <<raw, pc, root, cat, est, run, first, shaped>>

\* z.array(majorTask) reaches its next element: majorTaskIn.parse(val) returns
MajorTaskParse ==
  /\ MajorPending
  /\ majorTaskIn(cat.items[cat.i]).ok
  /\ maj' = [pass |-> "reduce", val |-> majorTaskIn(cat.items[cat.i]).value]
  /\ shaped' = shaped \cup {<<root.i, cat.i>>}
  /\ UNCHANGED <<raw, pc, root, cat, est, run, first, reduced>>

\* majorTaskIn.parse(val) throws, and nothing between it and the caller of
\* estimateList.parse catches
MajorTaskThrow ==
  /\ MajorPending
  /\ ~majorTaskIn(cat.items[cat.i]).ok
  /\ pc' = "failed"
  /\ UNCHANGED <<raw, root, cat, maj, est, run, first, shaped, reduced>>

\* MajorTaskReduce with the spread as {...totals, ...val}.
MajorTaskReduceUnder ==
  /\ pc = "run"
  /\ maj.pass = "reduce"
  /\ maj' = [pass |-> "out",
             val |-> Spread(Spread(maj.val, Totals(maj.val.tasks)),
                            Pick(cat.items[cat.i], EstimateKeys))]
  /\ reduced' = reduced \cup {<<root.i, cat.i>>}
  /\ UNCHANGED <<raw, pc, root, cat, est, run, first, shaped>>

\* the reduce, the rounding and the spread of the majorTask callback
MajorTaskReduce ==
  /\ pc = "run"
  /\ maj.pass = "reduce"
  /\ maj' = [pass |-> "out", val |-> Spread(maj.val, Totals(maj.val.tasks))]
  /\ reduced' = reduced \cup {<<root.i, cat.i>>}
  /\ UNCHANGED <<raw, pc, root, cat, est, run, first, shaped>>

\* majorTaskIn.and(estimates) parses what the callback returned; the element is done
MajorTaskOutput ==
  /\ pc = "run"
  /\ maj.pass = "out"
  /\ LET left == majorTaskIn(maj.val)
         right == estimates(maj.val)
         ok == left.ok /\ right.ok
     IN  cat' = [cat EXCEPT !.items[cat.i] = IF ok THEN Spread(left.value, right.value) ELSE maj.val,
                            !.i = @ + 1,
                            !.bad = @ \/ ~ok]
  /\ maj' = Idle
  /\ UNCHANGED <<raw, pc, root, est, run, first, shaped, reduced>>

CategoryParsed ==
  /\ pc = "run"
  /\ cat.pass = "fn"
  /\ maj = Idle
  /\ cat.i > Len(cat.items)

\* taskCategoryIn.parse(val) returns
TaskCategoryParse ==
  /\ CategoryParsed
  /\ Has(cat.val, "name") /\ ~cat.bad
  /\ cat' = [cat EXCEPT !.pass = "reduce",
                        !.val = [name |-> cat.val.name, tasks |-> cat.items]]
  /\ shaped' = shaped \cup {<<root.i>>}
  /\ UNCHANGED <<raw, pc, root, maj, est, run, first, reduced>>

\* taskCategoryIn.parse(val) throws
TaskCategoryThrow ==
  /\ CategoryParsed
  /\ ~(Has(cat.val, "name") /\ ~cat.bad)
  /\ pc' = "failed"
  /\ UNCHANGED <<raw, root, cat, maj, est, run, first, shaped, reduced>>

\* the reduce and the rounding of the taskCategory callback
TaskCategoryReduce ==
  /\ pc = "run"
  /\ cat.pass = "reduce"
  /\ cat' = [pass |-> "sort", i |-> 1, val |-> cat.val, items |-> cat.items,
             bad |-> FALSE, totals |-> Totals(cat.val.tasks)]
  /\ reduced' = reduced \cup {<<root.i>>}
  /\ UNCHANGED <<raw, pc, root, maj, est, run, first, shaped>>

\* input.tasks.sort(...) and the spread; taskCategoryIn.and(estimates) starts
\* on what the callback returned
TaskCategorySort ==
  /\ pc = "run"
  /\ cat.pass = "sort"
  /\ LET tasks == SortTasks(cat.val.tasks)
     IN  cat' = Frame("out", Spread([cat.val EXCEPT !.tasks = tasks], cat.totals), tasks)
  /\ UNCHANGED <<raw, pc, root, maj, est, run, first, shaped, reduced>>

\* taskCategoryIn.and(estimates) ends; the element is done
TaskCategoryOutput ==
  /\ pc = "run"
  /\ cat.pass = "out"
  /\ maj = Idle
  /\ cat.i > Len(cat.items)
  /\ LET right == estimates(cat.val)
         ok == Has(cat.val, "name") /\ ~cat.bad /\ right.ok
     IN  root' = [root EXCEPT !.items[root.i] =
                                  IF ok THEN Spread([name |-> cat.val.name, tasks |-> cat.items],
                                                    right.value)
                                  ELSE cat.val,
                              !.i = @ + 1,
                              !.bad = @ \/ ~ok]
  /\ cat' = Idle
  /\ UNCHANGED <<raw, pc, maj, est, run, first, shaped, reduced>>

\* estimateSchema.parse(val) ends: it returns, or throws when an element was invalid
EstimateSchemaParse ==
  /\ pc = "run"
  /\ root.pass = "fn"
  /\ cat = Idle
  /\ root.i > Len(root.items)
  /\ IF root.bad
     THEN pc' = "failed" /\ UNCHANGED <<root, shaped>>
     ELSE /\ root' = [root EXCEPT !.pass = "reduce", !.val = [estimates |-> root.items]]
          /\ shaped' = shaped \cup {<<>>}
          /\ pc' = pc
  /\ UNCHANGED <<raw, cat, maj, est, run, first, reduced>>

\* the reduce, the rounding and the spread of the estimateList callback;
\* estimateSchema.and(estimates) starts on what the callback returned
EstimateListReduce ==
  /\ pc = "run"
  /\ root.pass = "reduce"
  /\ root' = Frame("out", Spread(root.val, Totals(root.val.estimates)), root.val.estimates)
  /\ reduced' = reduced \cup {<<>>}
  /\ UNCHANGED <<raw, pc, cat, maj, est, run, first, shaped>>

\* estimateSchema.and(estimates) ends: estimateList.parse returns or throws
EstimateListOutput ==
  /\ pc = "run"
  /\ root.pass = "out"
  /\ cat = Idle
  /\ root.i > Len(root.items)
  /\ LET right == estimates(root.val)
     IN  IF ~root.bad /\ right.ok
         THEN pc' = "done" /\ est' = Spread([estimates |-> root.items], right.value)
         ELSE pc' = "failed" /\ est' = est
  /\ UNCHANGED <<raw, root, cat, maj, run, first, shaped, reduced>>

\* The reducer is run once more, on the tree it returned.
RunAgain ==
  /\ pc = "done"
  /\ run = "first"
  /\ raw' = est
  /\ first' = est
  /\ run' = "again"
  /\ pc' = "start"
  /\ root' = Idle
  /\ est' = Unset
  /\ shaped' = {}
  /\ reduced' = {}
  /\ UNCHANGED <<cat, maj>>

\* The reducer is run on the same document without the estimate fields
\* written on its categories, major tasks and plan.
RunVariant ==
  /\ pc = "done"
  /\ run = "first"
  /\ StripDerived(raw) # raw
  /\ raw' = StripDerived(raw)
  /\ first' = est
  /\ run' = "variant"
  /\ pc' = "start"
  /\ root' = Idle
  /\ est' = Unset
  /\ shaped' = {}
  /\ reduced' = {}
  /\ UNCHANGED <<cat, maj>>

Next ==
  \/ Start
  \/ TaskCategoryEnter
  \/ MajorTaskParse
  \/ MajorTaskThrow
  \/ MajorTaskReduce
  \/ MajorTaskOutput
  \/ TaskCategoryParse
  \/ TaskCategoryThrow
  \/ TaskCategoryReduce
  \/ TaskCategorySort
  \/ TaskCategoryOutput
  \/ EstimateSchemaParse
  \/ EstimateListReduce
  \/ EstimateListOutput
  \/ RunAgain
  \/ RunVariant

Spec == Init /\ [][Next]_vars

SpecWide == InitWide /\ [][Next]_vars

(***************************************************************************)
(* What the properties below speak about                                   *)
(***************************************************************************)
Finished == pc = "done"

\* The nodes that carry derived fields, each with its children.
Derived(tree) ==
  {[node |-> tree, kids |-> tree.estimates]}
  \cup {[node |-> tree.estimates[c], kids |-> tree.estimates[c].tasks] :
          c \in 1..Len(tree.estimates)}
  \cup UNION {{[node |-> tree.estimates[c].tasks[m],
                kids |-> tree.estimates[c].tasks[m].tasks] :
                 m \in 1..Len(tree.estimates[c].tasks)} :
              c \in 1..Len(tree.estimates)}

\* The children's values of one field added up in the order of the sequence.
RECURSIVE SumOf(_, _, _)
SumOf(kids, key, k) ==
  IF k = 0 THEN Num(0) ELSE FAdd(SumOf(kids, key, k - 1), kids[k][key])

RECURSIVE IntSumOf(_, _, _)
IntSumOf(kids, key, k) ==
  IF k = 0 THEN 0 ELSE IntSumOf(kids, key, k - 1) + kids[k][key][1]

\* round(mean) of integer values, a mean ending in .5 going up
RoundedMean(kids, key) ==
  Num((2 * IntSumOf(kids, key, Len(kids)) + Len(kids)) \div (2 * Len(kids)))

Leq(x, y) ==
  \/ x[1] < y[1]
  \/ x[1] = y[1] /\ x[2] < y[2]
  \/ x[1] = y[1] /\ x[2] = y[2] /\ x[3] < y[3]
  \/ x[1] = y[1] /\ x[2] = y[2] /\ x[3] = y[3] /\ x[4] <= y[4]

Orderings(n) == {f \in [1..n -> 1..n] : \A i, j \in 1..n : i # j => f[i] # f[j]}

Positions(tasks) == [i \in 1..Len(tasks) |-> tasks[i].gantt.position]

\* Some node of the document lacks its name.
Malformed(doc) ==
  \E c \in 1..Len(doc.estimates) :
    \/ ~Has(doc.estimates[c], "name")
    \/ \E m \in 1..Len(doc.estimates[c].tasks) :
         \/ ~Has(doc.estimates[c].tasks[m], "name")
         \/ \E t \in 1..Len(doc.estimates[c].tasks[m].tasks) :
              ~Has(doc.estimates[c].tasks[m].tasks[t], "name")

\* The paths of the categories and major tasks of the document, and the plan's.
Paths(doc) ==
  {<<>>} \cup {<<c>> : c \in 1..Len(doc.estimates)}
  \cup UNION {{<<c, m>> : m \in 1..Len(doc.estimates[c].tasks)} : c \in 1..Len(doc.estimates)}

Below(doc, p) == {q \in Paths(doc) : Len(q) >= Len(p) /\ SubSeq(q, 1, Len(p)) = p}

(***************************************************************************)
(* C1.  After a successful run every derived node's lowerEstimate and      *)
(* higherEstimate are the sums of its direct children's, added in the      *)
(* order the children have in the output.                                  *)
(***************************************************************************)
SumsOfChildren ==
  Finished =>
    \A d \in Derived(est) :
      /\ d.node.lowerEstimate = SumOf(d.kids, "lowerEstimate", Len(d.kids))
      /\ d.node.higherEstimate = SumOf(d.kids, "higherEstimate", Len(d.kids))

(***************************************************************************)
(* C2.  After a successful run every derived node with at least one child  *)
(* has complexity and confidence equal to the rounded mean of its          *)
(* children's (integer) values, a mean ending in .5 rounding up.           *)
(***************************************************************************)
MeansOfChildren ==
  Finished =>
    \A d \in Derived(est) :
      Len(d.kids) > 0 =>
        /\ d.node.complexity = RoundedMean(d.kids, "complexity")
        /\ d.node.confidence = RoundedMean(d.kids, "confidence")

(***************************************************************************)
(* C3.  After a successful run the tasks of every category are the major   *)
(* tasks of that category of the input, each exactly once, in ascending    *)
(* order of gantt.position, tasks of equal position in their input order.  *)
(***************************************************************************)
SortedStably ==
  Finished =>
    \A c \in 1..Len(est.estimates) :
      LET out == est.estimates[c].tasks
          in == raw.estimates[c].tasks
      IN  /\ Len(out) = Len(in)
          /\ \E f \in Orderings(Len(in)) :
               /\ \A i \in 1..Len(in) :
                    /\ out[i].name = in[f[i]].name
                    /\ out[i].gantt = in[f[i]].gantt
               /\ \A i, j \in 1..Len(in) :
                    i < j => /\ out[i].gantt.position <= out[j].gantt.position
                             /\ out[i].gantt.position = out[j].gantt.position => f[i] < f[j]

\* A run that finished on a category given as positions 3, 1, 1.
SortedStablyWitness ==
  /\ Finished
  /\ run = "first"
  /\ \E c \in 1..Len(raw.estimates) :
       /\ Positions(raw.estimates[c].tasks) = <<3, 1, 1>>
       /\ raw.estimates[c].tasks[2].name # raw.estimates[c].tasks[3].name

(***************************************************************************)
(* C4.  A document with a node that lacks its name never yields a result:  *)
(* est stays unset throughout, and the run is never in the done state.     *)
(***************************************************************************)
NoPartialResult ==
  Malformed(raw) => est = Unset /\ pc \in {"start", "run", "failed"}

\* The run failed on a minor task without a name that follows a good one.
NoPartialResultWitness ==
  /\ pc = "failed"
  /\ \E c \in 1..Len(raw.estimates) :
       \E m \in 1..Len(raw.estimates[c].tasks) :
         /\ Len(raw.estimates[c].tasks[m].tasks) >= 2
         /\ Has(raw.estimates[c].tasks[m].tasks[1], "name")
         /\ ~Has(raw.estimates[c].tasks[m].tasks[2], "name")

(***************************************************************************)
(* C5 as claimed.  No reduction is executed before every node of the       *)
(* document has passed its shape check.                                    *)
(***************************************************************************)
ValidateAllFirst == reduced # {} => Paths(raw) \subseteq shaped

(***************************************************************************)
(* C5 as amended.  A node's reduction is executed only after that node     *)
(* and every node below it have passed their shape check.                  *)
(***************************************************************************)
ValidateSubtreeFirst == \A p \in reduced : Below(raw, p) \subseteq shaped

\* The run failed on a second major task after the first one was reduced.
ValidateSubtreeFirstWitness ==
  /\ pc = "failed"
  /\ <<1, 1>> \in reduced
  /\ Len(raw.estimates[1].tasks) >= 2
  /\ ~Has(raw.estimates[1].tasks[2], "name")

(***************************************************************************)
(* C6 as claimed.  After a successful run a derived node without children  *)
(* has a complexity and a confidence that are not numbers.                 *)
(***************************************************************************)
EmptyGivesNaN ==
  Finished =>
    \A d \in Derived(est) :
      Len(d.kids) = 0 => IsNaN(d.node.complexity) /\ IsNaN(d.node.confidence)

IsEmptyNode(o) == Has(o, "tasks") /\ Len(o.tasks) = 0

(***************************************************************************)
(* C6 as amended.  A well-formed document never fails, whatever nodes are  *)
(* empty; a derived node without children has all four fields 0, and its   *)
(* parent's complexity and confidence are the rounded means that count     *)
(* that 0.                                                                 *)
(***************************************************************************)
EmptyGivesZero ==
  /\ ~Malformed(raw) => pc # "failed"
  /\ Finished =>
       \A d \in Derived(est) :
         /\ Len(d.kids) = 0 => \A k \in EstimateKeys : d.node[k] = Num(0)
         /\ (\E i \in 1..Len(d.kids) : IsEmptyNode(d.kids[i])) =>
              /\ d.node.complexity = RoundedMean(d.kids, "complexity")
              /\ d.node.confidence = RoundedMean(d.kids, "confidence")

\* A finished run with an empty major task beside one that has tasks.
EmptyGivesZeroWitness ==
  /\ Finished
  /\ \E d \in Derived(est) :
       \E i, j \in 1..Len(d.kids) :
         /\ IsEmptyNode(d.kids[i])
         /\ d.kids[i].complexity = Num(0)
         /\ d.kids[j].complexity # Num(0)

(***************************************************************************)
(* C7.  Run on the tree it returned, the reducer succeeds and returns the  *)
(* same tree.                                                              *)
(***************************************************************************)
Idempotent ==
  run = "again" => /\ pc # "failed"
                   /\ Finished => est = first

SameMinor(out, in) ==
  \A k \in {"name", "comment"} \cup EstimateKeys :
    /\ Has(out, k) <=> Has(in, k)
    /\ Has(in, k) => out[k] = in[k]

SameMajor(out, in) ==
  /\ out.name = in.name
  /\ out.gantt = in.gantt
  /\ Len(out.tasks) = Len(in.tasks)
  /\ \A t \in 1..Len(in.tasks) : SameMinor(out.tasks[t], in.tasks[t])

(***************************************************************************)
(* C8.  After a successful run the categories are the input's, in order    *)
(* and with their names; the major tasks of a category are the input's     *)
(* with name and gantt unchanged; and the minor tasks of every major task  *)
(* are the input's in order, with every field unchanged.                   *)
(***************************************************************************)
FrameKept ==
  Finished =>
    /\ Len(est.estimates) = Len(raw.estimates)
    /\ \A c \in 1..Len(raw.estimates) :
         LET out == est.estimates[c].tasks
             in == raw.estimates[c].tasks
         IN  /\ est.estimates[c].name = raw.estimates[c].name
             /\ Len(out) = Len(in)
             /\ \E f \in Orderings(Len(in)) :
                  \A i \in 1..Len(in) : SameMajor(out[i], in[f[i]])

\* A finished run whose input has its major tasks out of order, one of
\* them with a commented minor task.
FrameKeptWitness ==
  /\ Finished
  /\ run = "first"
  /\ \E c \in 1..Len(raw.estimates) :
       /\ Positions(raw.estimates[c].tasks) = <<3, 1>>
       /\ Len(raw.estimates[c].tasks[2].tasks) = 2
       /\ Has(raw.estimates[c].tasks[2].tasks[1], "comment")
       /\ Has(est.estimates[c].tasks[1].tasks[1], "comment")
       /\ est.estimates[c].tasks[1].gantt.position = 1

(***************************************************************************)
(* C9.  The run on the document without the estimate fields written on     *)
(* its categories, major tasks and plan succeeds and returns what the run  *)
(* on the document itself returned.                                        *)
(***************************************************************************)
SuppliedIgnored ==
  run = "variant" => /\ pc # "failed"
                     /\ Finished => est = first

\* Both runs finished, the first one on a major task that came with fields.
SuppliedIgnoredWitness ==
  /\ run = "variant"
  /\ Finished
  /\ \E c \in 1..Len(first.estimates) :
       \E m \in 1..Len(first.estimates[c].tasks) :
         first.estimates[c].tasks[m].name = "r"

InScore(x) == x[2] = 0 /\ x[3] = 0 /\ x[4] = 0 /\ x[1] \in 1..5

\* Every minor task within the bounds of the data model, and no node empty.
LeafBounds(doc) ==
  /\ Len(doc.estimates) > 0
  /\ \A c \in 1..Len(doc.estimates) :
       /\ Len(doc.estimates[c].tasks) > 0
       /\ \A m \in 1..Len(doc.estimates[c].tasks) :
            /\ Len(doc.estimates[c].tasks[m].tasks) > 0
            /\ \A t \in 1..Len(doc.estimates[c].tasks[m].tasks) :
                 LET task == doc.estimates[c].tasks[m].tasks[t]
                 IN  /\ InScore(task.complexity)
                     /\ InScore(task.confidence)
                     /\ Leq(Num(0), task.lowerEstimate)
                     /\ Leq(task.lowerEstimate, task.higherEstimate)

Between(kids, key, x) ==
  /\ \E i \in 1..Len(kids) : Leq(kids[i][key], x)
  /\ \E i \in 1..Len(kids) : Leq(x, kids[i][key])

(***************************************************************************)
(* C10.  After a successful run on a document whose minor tasks are within *)
(* bounds and that has no empty node, every derived node has complexity    *)
(* and confidence in 1..5 and between the least and the greatest of its    *)
(* children's, and 0 <= lowerEstimate <= higherEstimate.                   *)
(***************************************************************************)
BoundsKept ==
  (Finished /\ LeafBounds(est)) =>
    \A d \in Derived(est) :
      /\ InScore(d.node.complexity)
      /\ InScore(d.node.confidence)
      /\ Between(d.kids, "complexity", d.node.complexity)
      /\ Between(d.kids, "confidence", d.node.confidence)
      /\ Leq(Num(0), d.node.lowerEstimate)
      /\ Leq(d.node.lowerEstimate, d.node.higherEstimate)

====
